---- MODULE Spec2Model ----
(***************************************************************************)
(* The streaming fan-out of the twitter client (stream.go): the subscriber *)
(* list and the running flag of one Client, the callers of SubscribeStream, *)
(* UnsubscribeStream, StartStream and StopStream, and the three goroutines  *)
(* of every run of stream(): the pump itself, the decode goroutine and the  *)
(* fan-out goroutine.  Channels are unbuffered: a send parks the sender     *)
(* until a receiver takes the value.                                        *)
(***************************************************************************)
EXTENDS Integers, Sequences, FiniteSets, TLC

\* Bounds of the model: callers, SubscribeStream calls, rule identifiers, runs of
\* stream(), records the server sends, length of a record's matching_rules
NumCallers == 2
MaxSubs == 3
NumRules == 2
MaxRuns == 2
MaxEvents == 2
MaxMatches == 2
\* records the server sends in a behaviour that lets the decoder run ahead
MaxBacklog == 3
\* CreateStreamRule calls, options of one call
MaxCreates == 3
MaxOptions == 2
\* convertToTweet: user IDs and media keys, included users, included media,
\* media keys of a tweet, tweets of a search response
NumIds == 2
MaxUsers == 2
MaxMedia == 2
MaxKeys == 2
MaxTweets == 2

Callers == 1..NumCallers
Chans == 1..MaxSubs
RuleIds == 1..NumRules
Runs == 1..MaxRuns

VARIABLES
    streamSubscribers,      \* Client.streamSubscribers
    streaming,              \* Client.streaming
    mutex,                  \* holder of the embedded sync.Mutex
    EnableAllTweetsChannel, \* Client.EnableAllTweetsChannel
    pc, arg,                \* callers: position and argument of the call in progress
    issued,                 \* subscriptions returned by SubscribeStream so far
    passed,                 \* subscriptions handed to UnsubscribeStream so far
    closed,                 \* subscription channels that have been closed
    pendingDeletes,         \* per rule: spawned goroutines that will call DeleteStreamRule
    panicked,               \* a goroutine panicked: the process is gone
    main, dec, fan,         \* per run: position of stream(), decode and fan-out goroutine
    body, reqCancelled,     \* per run: resp.Body and the request context
    decoded,                \* per run: number of Decode calls so far
    decTweet, fanTweet,     \* per run: the tweet held by the decode / fan-out goroutine
    fanPos,                 \* per run: <<i, j>> of the send the fan-out is parked on
    sendq,                  \* per subscription channel: values of the parked senders
    sentTo,                 \* per run: channels that received the tweet being fanned out
    received,               \* per subscription channel: the tweets its readers took, in order
    streamed,               \* per run: the tweets the readers of StreamedTweets took, in order
    fannedOut,              \* per run: number of tweets the fan-out is through with
    deleteFailed,           \* a DeleteStreamRule of a spawned goroutine returned an error
    srvRules,               \* the server: the values of the rules it holds, a rule's ID its position
    returned,               \* what the calls of CreateStreamRule returned, with the server's answer
    response,               \* a decoded streamResponse or searchResponse
    tweets,                 \* the Tweets converted from response
    budget                  \* the environment's budget, fixed at the start

vars == <<streamSubscribers, streaming, mutex, EnableAllTweetsChannel, pc, arg,
          issued, passed, closed, pendingDeletes, panicked,
          main, dec, fan, body, reqCancelled, decoded, decTweet, fanTweet,
          fanPos, sendq, sentTo, received, streamed, fannedOut, deleteFailed,
          budget,
          srvRules, returned, response, tweets>>

callerVars == <<pc, arg, issued, passed>>
pumpVars == <<main, dec, fan, body, reqCancelled, decoded, decTweet, fanTweet, fanPos>>
chanVars == <<sendq, sentTo, received, streamed, fannedOut>>
ruleVars == <<srvRules, returned>>
convVars == <<response, tweets>>
envVars == <<EnableAllTweetsChannel, budget, deleteFailed, ruleVars, convVars>>

\* ------------------------------------------------------------------ values

Free == <<"free", 0>>
ByCaller(c) == <<"caller", c>>
ByFan(r) == <<"fan", r>>

\* no response decoded, nothing converted
NoResponse == [kind |-> "none", Tweets |-> <<>>, Includes |-> [Users |-> <<>>, Media |-> <<>>],
               Matches |-> [nil |-> TRUE, rules |-> <<>>]]
NoTweets == [done |-> FALSE, out |-> <<>>]

NoSub == [ch |-> 0, rule |-> 0]
NoTweet == [seq |-> 0, ruleIDs |-> <<>>]

\* StreamSubscription{Tweets, Rule}: the channel by its identity, the rule by its ID
StreamSubscription(ch, rule) == [ch |-> ch, rule |-> rule]

\* Tweet.RuleIDs of the records the server may send, of at most n matching rules
MatchLists(n) == UNION {[1..k -> RuleIds] : k \in 0..n}

Range(s) == {s[i] : i \in DOMAIN s}

\* What the environment may do in one behaviour: the number of SubscribeStream
\* calls, of runs of stream(), of records sent and of matching rules in a record,
\* the values the client's EnableAllTweetsChannel may be set to, and whether the
\* server may refuse to delete a rule. Each budget takes some of them to their
\* bounds.
Budgets ==
    { [subs |-> MaxSubs, runs |-> 1, events |-> 1, matches |-> 1,
       all |-> {FALSE}, deletes |-> {TRUE}],
      [subs |-> 1, runs |-> MaxRuns, events |-> 1, matches |-> 1,
       all |-> {FALSE}, deletes |-> BOOLEAN],
      [subs |-> 1, runs |-> 1, events |-> MaxEvents, matches |-> MaxMatches,
       all |-> BOOLEAN, deletes |-> {TRUE}],
      [subs |-> 1, runs |-> 1, events |-> MaxBacklog, matches |-> 1,
       all |-> {FALSE}, deletes |-> {TRUE}] }

\* the runs of stream() not launched yet
FreeRuns == {r \in 1..budget.runs : main[r] = "none"}

\* ------------------------------------------------------------------ Init

\* The Client as New() returns it, before any call
ClientInit ==
    /\ streamSubscribers = <<>>
    /\ streaming = FALSE
    /\ mutex = Free
    /\ pc = [c \in Callers |-> "idle"]
    /\ arg = [c \in Callers |-> NoSub]
    /\ issued = {}
    /\ passed = {}
    /\ closed = {}
    /\ pendingDeletes = [id \in RuleIds |-> 0]
    /\ panicked = FALSE
    /\ main = [r \in Runs |-> "none"]
    /\ dec = [r \in Runs |-> "none"]
    /\ fan = [r \in Runs |-> "none"]
    /\ body = [r \in Runs |-> "none"]
    /\ reqCancelled = [r \in Runs |-> FALSE]
    /\ decoded = [r \in Runs |-> 0]
    /\ decTweet = [r \in Runs |-> NoTweet]
    /\ fanTweet = [r \in Runs |-> NoTweet]
    /\ fanPos = [r \in Runs |-> <<0, 0>>]
    /\ sendq = [ch \in Chans |-> <<>>]
    /\ sentTo = [r \in Runs |-> {}]
    /\ received = [ch \in Chans |-> <<>>]
    /\ streamed = [r \in Runs |-> <<>>]
    /\ fannedOut = [r \in Runs |-> 0]
    /\ deleteFailed = FALSE

\* a new Client, and the server without rules and without calls of CreateStreamRule
Init ==
    /\ ClientInit
    /\ budget \in Budgets
    /\ EnableAllTweetsChannel \in budget.all
    /\ srvRules = <<>>
    /\ returned = <<>>
    /\ response = NoResponse
    /\ tweets = NoTweets

\* ------------------------------------------------------------------ SubscribeStream

\* SubscribeStream as the specification describes it: it also starts the pump when
\* it is not running
SubscribeStreamEnsureStarted(c, rule) ==
    /\ ~panicked
    /\ pc[c] = "idle"
    /\ mutex = Free
    /\ Cardinality(issued) < budget.subs
    /\ LET results == Cardinality(issued) + 1
           sub == StreamSubscription(results, rule)
       IN /\ streamSubscribers' = Append(streamSubscribers, sub)
          /\ issued' = issued \cup {sub}
    /\ IF ~streaming /\ FreeRuns # {}
       THEN LET r == CHOOSE x \in FreeRuns : \A y \in FreeRuns : x <= y
            IN /\ streaming' = TRUE
               /\ main' = [main EXCEPT ![r] = "open"]
       ELSE UNCHANGED <<streaming, main>>
    /\ UNCHANGED <<mutex, envVars, pc, arg, passed, closed, pendingDeletes, panicked>>
    /\ UNCHANGED <<dec, fan, body, reqCancelled, decoded, decTweet, fanTweet, fanPos>>
    /\ UNCHANGED chanVars

\* SubscribeStream(rule), from Lock to the deferred Unlock: make a channel, append
\* the subscription, return it
SubscribeStream(c, rule) ==
    /\ ~panicked
    /\ pc[c] = "idle"
    /\ mutex = Free
    /\ Cardinality(issued) < budget.subs
    /\ LET results == Cardinality(issued) + 1
           sub == StreamSubscription(results, rule)
       IN /\ streamSubscribers' = Append(streamSubscribers, sub)
          /\ issued' = issued \cup {sub}
    /\ UNCHANGED <<streaming, mutex, envVars, pc, arg, passed,
                   closed, pendingDeletes, panicked>>
    /\ UNCHANGED <<pumpVars, chanVars>>

\* ------------------------------------------------------------------ UnsubscribeStream

\* the loop of UnsubscribeStream over the subscribers from position i on: the index
\* of subToRemove (0: not found) and whether its rule is orphaned
RECURSIVE ScanSubscribers(_, _, _, _, _)
ScanSubscribers(subs, subToRemove, i, index, ruleIsOrphaned) ==
    IF i > Len(subs)
    THEN [index |-> index, ruleIsOrphaned |-> ruleIsOrphaned]
    ELSE LET sub == subs[i]
             idx == IF subToRemove = sub THEN i ELSE index
             orp == IF subToRemove = sub THEN ruleIsOrphaned
                    ELSE IF subToRemove.rule = sub.rule THEN FALSE
                    ELSE ruleIsOrphaned
         IN IF idx # 0 /\ ~orp
            THEN [index |-> idx, ruleIsOrphaned |-> orp]
            ELSE ScanSubscribers(subs, subToRemove, i + 1, idx, orp)

\* the removal with its second slice starting one element late
RemoveAtOffByOne(subs, index) ==
    SubSeq(subs, 1, index - 1) \o SubSeq(subs, index + 2, Len(subs))

\* an UnsubscribeStream that leaves the list as it is and only closes the channel
RemoveNothing(subs, index) == subs

\* append(subs[:index], subs[index+1:]...), index counted from 1
RemoveAt(subs, index) ==
    SubSeq(subs, 1, index - 1) \o SubSeq(subs, index + 1, Len(subs))

\* close(subToRemove.Tweets) and the deferred Unlock; closing a closed channel panics
CloseAndUnlock(c, subToRemove) ==
    IF subToRemove.ch \in closed
    THEN /\ panicked' = TRUE
         /\ UNCHANGED <<closed, mutex, pc, arg>>
    ELSE /\ closed' = closed \cup {subToRemove.ch}
         /\ mutex' = Free
         /\ pc' = [pc EXCEPT ![c] = "idle"]
         /\ arg' = [arg EXCEPT ![c] = NoSub]
         /\ UNCHANGED panicked

\* an UnsubscribeStream that sends the stop signal whether or not subscribers
\* are left
UnsubscribeStreamAlwaysStops(c, subToRemove) ==
    /\ ~panicked
    /\ mutex = Free
    /\ LET found == ScanSubscribers(streamSubscribers, subToRemove, 1, 0, TRUE)
           subs == IF found.index # 0
                   THEN RemoveAt(streamSubscribers, found.index)
                   ELSE streamSubscribers
       IN /\ streamSubscribers' = subs
          /\ passed' = passed \cup {subToRemove}
          /\ pendingDeletes' =
                IF found.ruleIsOrphaned
                THEN [pendingDeletes EXCEPT ![subToRemove.rule] = @ + 1]
                ELSE pendingDeletes
          /\ IF Len(subs) >= 0
             THEN /\ mutex' = ByCaller(c)
                  /\ pc' = [pc EXCEPT ![c] = "unsub_stop"]
                  /\ arg' = [arg EXCEPT ![c] = subToRemove]
                  /\ UNCHANGED <<closed, panicked>>
             ELSE CloseAndUnlock(c, subToRemove)
    /\ UNCHANGED <<streaming, envVars, issued>>
    /\ UNCHANGED <<pumpVars, chanVars>>

\* UnsubscribeStream(subToRemove) from Lock on: scan, remove, spawn the goroutine
\* that deletes an orphaned rule, then either park on stopStreamChan (no
\* subscriber left) or close the channel and return
UnsubscribeStreamLocked(c, subToRemove) ==
    /\ ~panicked
    /\ mutex = Free
    /\ LET found == ScanSubscribers(streamSubscribers, subToRemove, 1, 0, TRUE)
           subs == IF found.index # 0
                   THEN RemoveAt(streamSubscribers, found.index)
                   ELSE streamSubscribers
       IN /\ streamSubscribers' = subs
          /\ passed' = passed \cup {subToRemove}
          /\ pendingDeletes' =
                IF found.ruleIsOrphaned
                THEN [pendingDeletes EXCEPT ![subToRemove.rule] = @ + 1]
                ELSE pendingDeletes
          /\ IF Len(subs) = 0
             THEN /\ mutex' = ByCaller(c)
                  /\ pc' = [pc EXCEPT ![c] = "unsub_stop"]
                  /\ arg' = [arg EXCEPT ![c] = subToRemove]
                  /\ UNCHANGED <<closed, panicked>>
             ELSE CloseAndUnlock(c, subToRemove)
    /\ UNCHANGED <<streaming, envVars, issued>>
    /\ UNCHANGED <<pumpVars, chanVars>>

\* UnsubscribeStream(subToRemove) called while the mutex is free
UnsubscribeStream(c, subToRemove) ==
    /\ pc[c] = "idle"
    /\ UnsubscribeStreamLocked(c, subToRemove)

\* UnsubscribeStream(subToRemove) called while another goroutine holds the mutex:
\* the caller parks in tw.Lock()
UnsubscribeStreamLock(c, subToRemove) ==
    /\ ~panicked
    /\ pc[c] = "idle"
    /\ mutex # Free
    /\ pc' = [pc EXCEPT ![c] = "unsub_lock"]
    /\ arg' = [arg EXCEPT ![c] = subToRemove]
    /\ UNCHANGED <<streamSubscribers, streaming, mutex, envVars, issued, passed,
                   closed, pendingDeletes, panicked>>
    /\ UNCHANGED <<pumpVars, chanVars>>

\* the mutex was released: the parked UnsubscribeStream takes it and goes on
UnsubscribeStreamUnparked(c) ==
    /\ pc[c] = "unsub_lock"
    /\ UnsubscribeStreamLocked(c, arg[c])

\* the subscriptions of the UnsubscribeStream calls parked in tw.Lock()
InUnsubscribe == {arg[c] : c \in {d \in Callers : pc[d] = "unsub_lock"}}

\* UnsubscribeStream after its stop signal was taken: close the channel, return
UnsubscribeStreamClose(c) ==
    /\ ~panicked
    /\ pc[c] = "unsub_close"
    /\ CloseAndUnlock(c, arg[c])
    /\ UNCHANGED <<streamSubscribers, streaming, envVars, issued,
                   passed, pendingDeletes>>
    /\ UNCHANGED <<pumpVars, chanVars>>

\* a spawned goroutine that ends the program when DeleteStreamRule fails
DeleteStreamRuleFatal(id) ==
    /\ ~panicked
    /\ pendingDeletes[id] > 0
    /\ pendingDeletes' = [pendingDeletes EXCEPT ![id] = @ - 1]
    /\ \E ok \in budget.deletes :
          /\ deleteFailed' = (deleteFailed \/ ~ok)
          /\ panicked' = ~ok
    /\ UNCHANGED <<streamSubscribers, streaming, mutex, EnableAllTweetsChannel,
                   budget, ruleVars, convVars, closed>>
    /\ UNCHANGED <<callerVars, pumpVars, chanVars>>

\* the goroutine UnsubscribeStream spawned for an orphaned rule runs
\* DeleteStreamRule: the delete request for the rule is sent; the error it may
\* return is logged
DeleteStreamRule(id) ==
    /\ ~panicked
    /\ pendingDeletes[id] > 0
    /\ pendingDeletes' = [pendingDeletes EXCEPT ![id] = @ - 1]
    /\ \E ok \in budget.deletes : deleteFailed' = (deleteFailed \/ ~ok)
    /\ UNCHANGED <<streamSubscribers, streaming, mutex, EnableAllTweetsChannel,
                   budget, ruleVars, convVars, closed, panicked>>
    /\ UNCHANGED <<callerVars, pumpVars, chanVars>>

\* ------------------------------------------------------------------ StartStream, StopStream

\* StartStream without its test of tw.streaming
StartStreamUnguarded(c) ==
    /\ ~panicked
    /\ pc[c] = "idle"
    /\ mutex = Free
    /\ FreeRuns # {}
    /\ LET r == CHOOSE x \in FreeRuns : \A y \in FreeRuns : x <= y
       IN /\ streaming' = TRUE
          /\ main' = [main EXCEPT ![r] = "open"]
    /\ UNCHANGED <<streamSubscribers, mutex, envVars, pc, arg, issued,
                   passed, closed, pendingDeletes, panicked>>
    /\ UNCHANGED <<dec, fan, body, reqCancelled, decoded, decTweet, fanTweet, fanPos>>
    /\ UNCHANGED chanVars

\* StartStream, from Lock to the deferred Unlock: if !tw.streaming { tw.streaming = true; go tw.stream() }
StartStream(c) ==
    /\ ~panicked
    /\ pc[c] = "idle"
    /\ mutex = Free
    /\ streaming \/ FreeRuns # {}
    /\ IF ~streaming
       THEN LET r == CHOOSE x \in FreeRuns : \A y \in FreeRuns : x <= y
            IN /\ streaming' = TRUE
               /\ main' = [main EXCEPT ![r] = "open"]
       ELSE UNCHANGED <<streaming, main>>
    /\ UNCHANGED <<streamSubscribers, mutex, envVars, pc, arg, issued,
                   passed, closed, pendingDeletes, panicked>>
    /\ UNCHANGED <<dec, fan, body, reqCancelled, decoded, decTweet, fanTweet, fanPos>>
    /\ UNCHANGED chanVars

\* StopStream: the caller parks on tw.stopStreamChan <- true
StopStream(c) ==
    /\ ~panicked
    /\ pc[c] = "idle"
    /\ pc' = [pc EXCEPT ![c] = "stop_send"]
    /\ UNCHANGED <<streamSubscribers, streaming, mutex, envVars, arg,
                   issued, passed, closed, pendingDeletes, panicked>>
    /\ UNCHANGED <<pumpVars, chanVars>>

\* the callers parked sending on stopStreamChan
StopSenders == {c \in Callers : pc[c] \in {"stop_send", "unsub_stop"}}

\* ------------------------------------------------------------------ stream(): the pump

\* stream() up to the select: build the request, send it, and on success start the
\* decode and the fan-out goroutine; a failed request returns at once
StreamOpen(r) ==
    /\ ~panicked
    /\ main[r] = "open"
    /\ \/ /\ main' = [main EXCEPT ![r] = "select"]
          /\ body' = [body EXCEPT ![r] = "open"]
          /\ dec' = [dec EXCEPT ![r] = "more"]
          /\ fan' = [fan EXCEPT ![r] = "recv"]
       \/ /\ main' = [main EXCEPT ![r] = "exit"]
          /\ UNCHANGED <<body, dec, fan>>
    /\ UNCHANGED <<streamSubscribers, streaming, mutex, envVars,
                   closed, pendingDeletes, panicked>>
    /\ UNCHANGED <<reqCancelled, decoded, decTweet, fanTweet, fanPos>>
    /\ UNCHANGED <<callerVars, chanVars>>

\* a decode goroutine without the send on StreamedTweets
AfterConvertSkipsAll == "handoff"

\* where the decode goroutine goes on with the tweet it converted
AfterConvert == IF EnableAllTweetsChannel THEN "allsend" ELSE "handoff"

\* select, case err = <-errChan: the decode goroutine parked on errChan is released
\* and goes on after its send
StreamSelectErr(r) ==
    /\ main[r] = "select"
    /\ dec[r] = "errsend"
    /\ main' = [main EXCEPT ![r] = "exit"]
    /\ dec' = [dec EXCEPT ![r] = AfterConvert]
    /\ UNCHANGED <<pc, arg, mutex>>

\* a select without the stopStreamChan case
StreamSelectNoStop(r) == FALSE

\* select, case <-tw.stopStreamChan: one parked sender is released; StopStream
\* returns, UnsubscribeStream goes on to close its channel
StreamSelectStop(r) ==
    /\ main[r] = "select"
    /\ \E c \in StopSenders :
          /\ pc' = [pc EXCEPT ![c] = IF pc[c] = "unsub_stop" THEN "unsub_close" ELSE "idle"]
          /\ main' = [main EXCEPT ![r] = "exit"]
    /\ UNCHANGED <<dec, arg, mutex>>

\* the select of stream()
StreamSelect(r) ==
    /\ ~panicked
    /\ StreamSelectErr(r) \/ StreamSelectStop(r)
    /\ UNCHANGED <<streamSubscribers, streaming, envVars,
                   issued, passed, closed, pendingDeletes, panicked>>
    /\ UNCHANGED <<fan, body, reqCancelled, decoded, decTweet, fanTweet, fanPos>>
    /\ UNCHANGED chanVars

\* the deferred calls without resp.Body.Close()
StreamExitLeavesBody(r) ==
    /\ ~panicked
    /\ main[r] = "exit"
    /\ reqCancelled' = [reqCancelled EXCEPT ![r] = TRUE]
    /\ streaming' = FALSE
    /\ main' = [main EXCEPT ![r] = "done"]
    /\ UNCHANGED <<streamSubscribers, mutex, envVars, closed,
                   pendingDeletes, panicked>>
    /\ UNCHANGED <<dec, fan, body, decoded, decTweet, fanTweet, fanPos>>
    /\ UNCHANGED <<callerVars, chanVars>>

\* the deferred calls of stream(): resp.Body.Close() if the body was opened,
\* cancelRequest(), tw.streaming = false (written without the lock)
StreamExit(r) ==
    /\ ~panicked
    /\ main[r] = "exit"
    /\ body' = [body EXCEPT ![r] = IF @ = "open" THEN "closed" ELSE @]
    /\ reqCancelled' = [reqCancelled EXCEPT ![r] = TRUE]
    /\ streaming' = FALSE
    /\ main' = [main EXCEPT ![r] = "done"]
    /\ UNCHANGED <<streamSubscribers, mutex, envVars, closed,
                   pendingDeletes, panicked>>
    /\ UNCHANGED <<dec, fan, decoded, decTweet, fanTweet, fanPos>>
    /\ UNCHANGED <<callerVars, chanVars>>

\* ------------------------------------------------------------------ the decode goroutine

\* the records decoded so far, over all runs
RECURSIVE SumUpTo(_, _)
SumUpTo(f, n) == IF n = 0 THEN 0 ELSE f[n] + SumUpTo(f, n - 1)
Decoded == SumUpTo(decoded, MaxRuns)

\* a decode goroutine that does not wait for the fan-out to take its tweet before
\* it decodes the next record
DecodeAhead(r) ==
    /\ ~panicked
    /\ dec[r] \in {"more", "handoff"}
    /\ Decoded < budget.events
    /\ \E ids \in MatchLists(budget.matches), ok \in BOOLEAN :
          /\ decTweet' = [decTweet EXCEPT ![r] = [seq |-> decoded[r] + 1, ruleIDs |-> ids]]
          /\ dec' = [dec EXCEPT ![r] = IF ok THEN AfterConvert ELSE "errsend"]
    /\ decoded' = [decoded EXCEPT ![r] = @ + 1]
    /\ UNCHANGED <<streamSubscribers, streaming, mutex, envVars,
                   closed, pendingDeletes, panicked>>
    /\ UNCHANGED <<main, fan, body, reqCancelled, fanTweet, fanPos>>
    /\ UNCHANGED <<callerVars, chanVars>>

\* decoder.More() is true and Decode reads the next record: a well-formed one is
\* converted to a tweet with its matching rules; on an error the goroutine parks
\* on errChan <- err, holding whatever Decode left in result
Decode(r) ==
    /\ ~panicked
    /\ dec[r] = "more"
    /\ Decoded < budget.events
    /\ \E ids \in MatchLists(budget.matches), ok \in BOOLEAN :
          /\ decTweet' = [decTweet EXCEPT ![r] = [seq |-> decoded[r] + 1, ruleIDs |-> ids]]
          /\ dec' = [dec EXCEPT ![r] = IF ok THEN AfterConvert ELSE "errsend"]
    /\ decoded' = [decoded EXCEPT ![r] = @ + 1]
    /\ UNCHANGED <<streamSubscribers, streaming, mutex, envVars,
                   closed, pendingDeletes, panicked>>
    /\ UNCHANGED <<main, fan, body, reqCancelled, fanTweet, fanPos>>
    /\ UNCHANGED <<callerVars, chanVars>>

\* decoder.More() is false (the server closed the connection, or the body was
\* closed and the request cancelled here): close(tweetChan), the goroutine ends
DecodeEnd(r) ==
    /\ ~panicked
    /\ dec[r] = "more"
    /\ dec' = [dec EXCEPT ![r] = "done"]
    /\ UNCHANGED <<streamSubscribers, streaming, mutex, envVars,
                   closed, pendingDeletes, panicked>>
    /\ UNCHANGED <<main, fan, body, reqCancelled, decoded, decTweet, fanTweet, fanPos>>
    /\ UNCHANGED <<callerVars, chanVars>>

\* tw.StreamedTweets <- tweet: a reader of StreamedTweets takes the tweet
StreamedTweetsRecv(r) ==
    /\ ~panicked
    /\ dec[r] = "allsend"
    /\ dec' = [dec EXCEPT ![r] = "handoff"]
    /\ streamed' = [streamed EXCEPT ![r] = Append(@, decTweet[r].seq)]
    /\ UNCHANGED <<streamSubscribers, streaming, mutex, envVars,
                   closed, pendingDeletes, panicked>>
    /\ UNCHANGED <<main, fan, body, reqCancelled, decoded, decTweet, fanTweet, fanPos>>
    /\ UNCHANGED <<callerVars, sendq, sentTo, received, fannedOut>>

\* ------------------------------------------------------------------ the fan-out goroutine

\* the loops with the outer one ending one subscriber early
RECURSIVE NextMatchSkipsLast(_, _, _, _)
NextMatchSkipsLast(subs, ruleIDs, i, j) ==
    IF i >= Len(subs) THEN <<0, 0>>
    ELSE IF j > Len(ruleIDs) THEN NextMatchSkipsLast(subs, ruleIDs, i + 1, 1)
    ELSE IF ruleIDs[j] = subs[i].rule THEN <<i, j>>
    ELSE NextMatchSkipsLast(subs, ruleIDs, i, j + 1)

\* the two nested loops of the fan-out from <<i, j>> on: the first subscriber i and
\* match j with match == sub.Rule.ID, <<0, 0>> when the loops end
RECURSIVE NextMatch(_, _, _, _)
NextMatch(subs, ruleIDs, i, j) ==
    IF i > Len(subs) THEN <<0, 0>>
    ELSE IF j > Len(ruleIDs) THEN NextMatch(subs, ruleIDs, i + 1, 1)
    ELSE IF ruleIDs[j] = subs[i].rule THEN <<i, j>>
    ELSE NextMatch(subs, ruleIDs, i, j + 1)

\* the queues of parked senders after every send of the loops from <<i, j>> on was
\* started in a goroutine of its own, the latest one parking first
RECURSIVE StartSends(_, _, _, _)
StartSends(r, q, i, j) ==
    LET p == NextMatch(streamSubscribers, fanTweet[r].ruleIDs, i, j)
        ch == streamSubscribers[p[1]].ch
    IN IF p = <<0, 0>> THEN q
       ELSE StartSends(r, [q EXCEPT ![ch] = <<[run |-> r, seq |-> fanTweet[r].seq]>> \o @],
                       p[1], p[2] + 1)

\* a fan-out that sends with go func() { sub.Tweets <- tweet }() and does not
\* wait for the reader
SendOrFinishAsync(r, q, i, j) ==
    /\ fan' = [fan EXCEPT ![r] = "unlock"]
    /\ fanPos' = [fanPos EXCEPT ![r] = <<0, 0>>]
    /\ sendq' = StartSends(r, q, i, j)
    /\ UNCHANGED panicked

\* the fan-out goes on with its loops from <<i, j>>: it parks on the next
\* sub.Tweets <- tweet (a send on a closed channel panics), or is through
SendOrFinish(r, q, i, j) ==
    LET p == NextMatch(streamSubscribers, fanTweet[r].ruleIDs, i, j)
        ch == streamSubscribers[p[1]].ch
    IN IF p = <<0, 0>>
       THEN /\ fan' = [fan EXCEPT ![r] = "unlock"]
            /\ fanPos' = [fanPos EXCEPT ![r] = <<0, 0>>]
            /\ sendq' = q
            /\ UNCHANGED panicked
       ELSE IF ch \in closed
       THEN /\ panicked' = TRUE
            /\ sendq' = q
            /\ UNCHANGED <<fan, fanPos>>
       ELSE /\ fan' = [fan EXCEPT ![r] = "send"]
            /\ fanPos' = [fanPos EXCEPT ![r] = p]
            /\ sendq' = [q EXCEPT ![ch] = Append(@, [run |-> r, seq |-> fanTweet[r].seq])]
            /\ UNCHANGED panicked

\* for tweet := range tweetChan: take the tweet the decode goroutine is parked
\* with, or end when tweetChan is closed
FanOutRecv(r) ==
    /\ ~panicked
    /\ fan[r] = "recv"
    /\ \/ /\ dec[r] = "handoff"
          /\ fanTweet' = [fanTweet EXCEPT ![r] = decTweet[r]]
          /\ decTweet' = [decTweet EXCEPT ![r] = NoTweet]
          /\ dec' = [dec EXCEPT ![r] = "more"]
          /\ fan' = [fan EXCEPT ![r] = "lock"]
       \/ /\ dec[r] = "done"
          /\ fan' = [fan EXCEPT ![r] = "done"]
          /\ UNCHANGED <<fanTweet, decTweet, dec>>
    /\ UNCHANGED <<streamSubscribers, streaming, mutex, envVars,
                   closed, pendingDeletes, panicked>>
    /\ UNCHANGED <<main, body, reqCancelled, decoded, fanPos>>
    /\ UNCHANGED <<callerVars, chanVars>>

\* tw.Lock() in the fan-out, and its loops up to the first send
FanOutLock(r) ==
    /\ ~panicked
    /\ fan[r] = "lock"
    /\ mutex = Free
    /\ mutex' = ByFan(r)
    /\ SendOrFinish(r, sendq, 1, 1)
    /\ UNCHANGED <<streamSubscribers, streaming, envVars,
                   closed, pendingDeletes>>
    /\ UNCHANGED <<main, dec, body, reqCancelled, decoded, decTweet, fanTweet>>
    /\ UNCHANGED <<callerVars, sentTo, received, streamed, fannedOut>>

\* tw.Unlock() in the fan-out, back to the range over tweetChan
FanOutUnlock(r) ==
    /\ ~panicked
    /\ fan[r] = "unlock"
    /\ mutex' = Free
    /\ fan' = [fan EXCEPT ![r] = "recv"]
    /\ fanTweet' = [fanTweet EXCEPT ![r] = NoTweet]
    /\ sentTo' = [sentTo EXCEPT ![r] = {}]
    /\ fannedOut' = [fannedOut EXCEPT ![r] = @ + 1]
    /\ UNCHANGED <<streamSubscribers, streaming, envVars,
                   closed, pendingDeletes, panicked>>
    /\ UNCHANGED <<main, dec, body, reqCancelled, decoded, decTweet, fanPos>>
    /\ UNCHANGED <<callerVars, sendq, received, streamed>>

\* a reader of a subscription's channel takes the value of the first parked
\* sender; the fan-out that sent it goes on with its loops
TweetsRecv(ch) ==
    /\ ~panicked
    /\ sendq[ch] # <<>>
    /\ LET e == Head(sendq[ch])
           q == [sendq EXCEPT ![ch] = Tail(@)]
       IN /\ received' = [received EXCEPT ![ch] = Append(@, e)]
          /\ sentTo' = [sentTo EXCEPT ![e.run] = @ \cup {ch}]
          /\ IF fan[e.run] = "send"
             THEN SendOrFinish(e.run, q, fanPos[e.run][1], fanPos[e.run][2] + 1)
             ELSE /\ sendq' = q
                  /\ UNCHANGED <<fan, fanPos, panicked>>
    /\ UNCHANGED <<streamSubscribers, streaming, mutex, envVars,
                   closed, pendingDeletes>>
    /\ UNCHANGED <<main, dec, body, reqCancelled, decoded, decTweet, fanTweet>>
    /\ UNCHANGED <<callerVars, streamed, fannedOut>>

\* ------------------------------------------------------------------ CreateStreamRule

\* the options a caller may pass: strings as sequences of characters
Options == {<<"a">>, <<"b">>, <<"a", " ", "b">>}
OptionLists == UNION {[1..n -> Options] : n \in 0..MaxOptions}

\* the budget of a behaviour without streaming
NoBudget ==
    [subs |-> 0, runs |-> 0, events |-> 0, matches |-> 0, all |-> {FALSE}, deletes |-> {TRUE}]

\* http.StatusCreated and http.StatusOK
StatusCreated == 201
StatusOK == 200

\* ruleBuilder: a blank and the option, for every option
RECURSIVE RuleString(_)
RuleString(options) ==
    IF options = <<>> THEN <<>>
    ELSE <<" ">> \o Head(options) \o RuleString(Tail(options))

StreamRule(id, value) == [ID |-> id, Rule |-> value]

\* the position of value in the server's rules, 0 if it holds none of that value
RuleIdOf(value) ==
    IF \E i \in DOMAIN srvRules : srvRules[i] = value
    THEN CHOOSE i \in DOMAIN srvRules : srvRules[i] = value
    ELSE 0

\* what may come back for the request to add the rule value: no response at all,
\* a status other than StatusCreated, or StatusCreated with the new rule or, for a value the server
\* holds, with no rule created and the existing rule in the errors
Responses(value) ==
    { [failed |-> TRUE, StatusCode |-> 0, Rules |-> <<>>, Created |-> 0, Errors |-> <<>>],
      [failed |-> FALSE, StatusCode |-> StatusOK, Rules |-> <<>>, Created |-> 0,
       Errors |-> <<>>],
      IF RuleIdOf(value) = 0
      THEN [failed |-> FALSE, StatusCode |-> StatusCreated,
            Rules |-> <<StreamRule(Len(srvRules) + 1, value)>>, Created |-> 1,
            Errors |-> <<>>]
      ELSE [failed |-> FALSE, StatusCode |-> StatusCreated, Rules |-> <<>>, Created |-> 0,
            Errors |-> <<StreamRule(RuleIdOf(value), value)>>] }

\* a CreateStreamRule that always takes the rule from the data of the response
RuleFromData(rule, resp) ==
    IF resp.failed \/ resp.StatusCode # StatusCreated
    THEN [rule |-> rule, err |-> TRUE]
    ELSE IF resp.Rules # <<>>
    THEN [rule |-> resp.Rules[1], err |-> FALSE]
    ELSE [rule |-> rule, err |-> FALSE]

\* what CreateStreamRule returns for the response to its request
RuleFromResponse(rule, resp) ==
    IF resp.failed \/ resp.StatusCode # StatusCreated
    THEN [rule |-> rule, err |-> TRUE]
    ELSE IF resp.Created # 1 /\ Len(resp.Errors) > 0
    THEN [rule |-> resp.Errors[1], err |-> FALSE]
    ELSE [rule |-> resp.Rules[1], err |-> FALSE]

\* CreateStreamRule(options...): build the rule, post it, read the response
CreateStreamRule(options) ==
    /\ Len(returned) < MaxCreates
    /\ LET rule == StreamRule(0, RuleString(options))
       IN \E resp \in Responses(rule.Rule) :
             /\ returned' = Append(returned, [result |-> RuleFromResponse(rule, resp),
                                              value |-> rule.Rule, resp |-> resp])
             /\ srvRules' = IF resp.Created = 1 THEN Append(srvRules, rule.Rule)
                            ELSE srvRules
    /\ UNCHANGED <<streamSubscribers, streaming, mutex, EnableAllTweetsChannel, budget,
                   deleteFailed, closed, pendingDeletes, panicked>>
    /\ UNCHANGED <<callerVars, pumpVars, chanVars, convVars>>

RuleInit ==
    /\ ClientInit
    /\ budget = NoBudget
    /\ EnableAllTweetsChannel = FALSE
    /\ srvRules = <<>>
    /\ returned = <<>>
    /\ response = NoResponse
    /\ tweets = NoTweets

RuleNext == \E options \in OptionLists : CreateStreamRule(options)

RuleSpec == RuleInit /\ [][RuleNext]_vars

\* ------------------------------------------------------------------ convertToTweet

\* what the server may send: included users (a user's name by its position),
\* included media (URL and preview by position), tweets (ID by position) with an
\* author and media keys, and the matching rules of a stream record
Ids == 1..NumIds
MediaTypes == {"photo", "video", "animated_gif"}
UserLists ==
    UNION {{[i \in 1..n |-> [ID |-> ids[i], Name |-> <<"name", i>>]] : ids \in [1..n -> Ids]}
           : n \in 0..MaxUsers}
MediaLists ==
    UNION {{[i \in 1..n |-> [MediaKey |-> ms[i][1], Type |-> ms[i][2], URL |-> <<"url", i>>,
                              VideoPreviewImageURL |-> <<"preview", i>>]]
            : ms \in [1..n -> Ids \X MediaTypes]}
           : n \in 0..MaxMedia}
KeyLists == UNION {[1..n -> Ids] : n \in 0..MaxKeys}
TweetLists(lens) ==
    UNION {{[i \in 1..n |-> [ID |-> i, AuthorID |-> ts[i][1], MediaKeys |-> ts[i][2]]]
            : ts \in [1..n -> Ids \X KeyLists]}
           : n \in lens}
MatchesLists ==
    {[nil |-> TRUE, rules |-> <<>>]} \cup
    {[nil |-> FALSE, rules |-> [i \in DOMAIN ids |-> [ID |-> ids[i], Rule |-> <<>>]]]
     : ids \in MatchLists(MaxMatches)}

\* resp is a stream record (one tweet, its matching rules) or a search response
IsResponse(resp) ==
    \E us \in UserLists, ms \in MediaLists :
        \/ \E ts \in TweetLists({1}), m \in MatchesLists :
              resp = [kind |-> "stream", Tweets |-> ts,
                      Includes |-> [Users |-> us, Media |-> ms], Matches |-> m]
        \/ \E ts \in TweetLists(0..MaxTweets) :
              resp = [kind |-> "search", Tweets |-> ts,
                      Includes |-> [Users |-> us, Media |-> ms],
                      Matches |-> [nil |-> TRUE, rules |-> <<>>]]

\* var author Author
NoAuthor == [ID |-> 0, Name |-> <<>>]

\* the loop over incl.Users from position i on, with its break
RECURSIVE FindAuthor(_, _, _)
FindAuthor(users, authorID, i) ==
    IF i > Len(users) THEN NoAuthor
    ELSE IF users[i].ID = authorID THEN [ID |-> users[i].ID, Name |-> users[i].Name]
    ELSE FindAuthor(users, authorID, i + 1)

\* loops over the media that stop after the first media key
RECURSIVE ResolveFirstKey(_, _, _, _, _)
ResolveFirstKey(keys, incl, i, j, acc) ==
    IF i > Len(keys) \/ i > 1 THEN acc
    ELSE IF j > Len(incl) THEN ResolveFirstKey(keys, incl, i + 1, 1, acc)
    ELSE LET mediaItem == incl[j]
             nxt == IF keys[i] # mediaItem.MediaKey THEN acc
                    ELSE IF mediaItem.Type = "photo"
                    THEN [acc EXCEPT !.images = Append(@, mediaItem.URL)]
                    ELSE IF mediaItem.Type = "video"
                    THEN [acc EXCEPT !.hasVideo = TRUE,
                                     !.videoPreview = mediaItem.VideoPreviewImageURL]
                    ELSE acc
         IN ResolveFirstKey(keys, incl, i, j + 1, nxt)

\* the loops over tweet.Attachments.MediaKeys and incl.Media from <<i, j>> on
RECURSIVE ResolveMedia(_, _, _, _, _)
ResolveMedia(keys, incl, i, j, acc) ==
    IF i > Len(keys) THEN acc
    ELSE IF j > Len(incl) THEN ResolveMedia(keys, incl, i + 1, 1, acc)
    ELSE LET mediaItem == incl[j]
             nxt == IF keys[i] # mediaItem.MediaKey THEN acc
                    ELSE IF mediaItem.Type = "photo"
                    THEN [acc EXCEPT !.images = Append(@, mediaItem.URL)]
                    ELSE IF mediaItem.Type = "video"
                    THEN [acc EXCEPT !.hasVideo = TRUE,
                                     !.videoPreview = mediaItem.VideoPreviewImageURL]
                    ELSE acc
         IN ResolveMedia(keys, incl, i, j + 1, nxt)

\* convertToTweet(tweet, incl, matches)
convertToTweet(tweet, incl, matches) ==
    LET m == ResolveMedia(tweet.MediaKeys, incl.Media, 1, 1,
                          [images |-> <<>>, hasVideo |-> FALSE, videoPreview |-> <<>>])
    IN [ID |-> tweet.ID,
        Author |-> FindAuthor(incl.Users, tweet.AuthorID, 1),
        Images |-> m.images,
        RuleIDs |-> IF matches.nil THEN <<>>
                    ELSE [i \in DOMAIN matches.rules |-> matches.rules[i].ID],
        HasVideo |-> m.hasVideo,
        VideoPreviewURL |-> m.videoPreview]

\* the decode goroutine converts the record it decoded, with its matching rules
StreamConvert ==
    /\ response.kind = "stream"
    /\ ~tweets.done
    /\ tweets' = [done |-> TRUE,
                  out |-> <<convertToTweet(response.Tweets[1], response.Includes,
                                           response.Matches)>>]
    /\ UNCHANGED <<streamSubscribers, streaming, mutex, EnableAllTweetsChannel, budget,
                   deleteFailed, closed, pendingDeletes, panicked>>
    /\ UNCHANGED <<callerVars, pumpVars, chanVars, ruleVars, response>>

\* tweetsFromSearchResult(response)
tweetsFromSearchResult(resp) ==
    [i \in DOMAIN resp.Tweets |->
        convertToTweet(resp.Tweets[i], resp.Includes, [nil |-> TRUE, rules |-> <<>>])]

\* SearchRecent converts the response it decoded
SearchConvert ==
    /\ response.kind = "search"
    /\ ~tweets.done
    /\ tweets' = [done |-> TRUE, out |-> tweetsFromSearchResult(response)]
    /\ UNCHANGED <<streamSubscribers, streaming, mutex, EnableAllTweetsChannel, budget,
                   deleteFailed, closed, pendingDeletes, panicked>>
    /\ UNCHANGED <<callerVars, pumpVars, chanVars, ruleVars, response>>

ConvertInit ==
    /\ ClientInit
    /\ budget = NoBudget
    /\ EnableAllTweetsChannel = FALSE
    /\ srvRules = <<>>
    /\ returned = <<>>
    /\ IsResponse(response)
    /\ tweets = NoTweets

ConvertNext == StreamConvert \/ SearchConvert

ConvertSpec == ConvertInit /\ [][ConvertNext]_vars

\* ------------------------------------------------------------------ specifications

\* the steps of the program with callers that hand a subscription Subscribe
\* returned to UnsubscribeStream at most once
NextOnce ==
    \/ \E c \in Callers, rule \in RuleIds : SubscribeStream(c, rule)
    \/ \E c \in Callers, sub \in (issued \ passed) \ InUnsubscribe : UnsubscribeStream(c, sub)
    \/ \E c \in Callers, sub \in (issued \ passed) \ InUnsubscribe : UnsubscribeStreamLock(c, sub)
    \/ \E c \in Callers : UnsubscribeStreamUnparked(c)
    \/ \E c \in Callers : UnsubscribeStreamClose(c)
    \/ \E id \in RuleIds : DeleteStreamRule(id)
    \/ \E c \in Callers : StartStream(c)
    \/ \E c \in Callers : StopStream(c)
    \/ \E r \in Runs : StreamOpen(r)
    \/ \E r \in Runs : StreamSelect(r)
    \/ \E r \in Runs : StreamExit(r)
    \/ \E r \in Runs : Decode(r)
    \/ \E r \in Runs : DecodeEnd(r)
    \/ \E r \in Runs : StreamedTweetsRecv(r)
    \/ \E r \in Runs : FanOutRecv(r)
    \/ \E r \in Runs : FanOutLock(r)
    \/ \E r \in Runs : FanOutUnlock(r)
    \/ \E ch \in Chans : TweetsRecv(ch)

\* a caller hands UnsubscribeStream a subscription it was handed before
UnsubscribeStreamAgain(c, sub) == UnsubscribeStream(c, sub)

\* any caller
Next ==
    \/ NextOnce
    \/ \E c \in Callers, sub \in passed : UnsubscribeStreamAgain(c, sub)

Spec == Init /\ [][Next]_vars

\* The goroutines of the program are scheduled when they can run: the pump takes
\* every step it can take, an UnsubscribeStream released from stopStreamChan
\* returns, one parked in Lock goes on when the mutex is free. Nothing is assumed of the callers, the server or the readers.
Fairness ==
    /\ \A r \in Runs : WF_vars(StreamOpen(r)) /\ WF_vars(StreamSelect(r)) /\ WF_vars(StreamExit(r))
    /\ \A c \in Callers : WF_vars(UnsubscribeStreamClose(c)) /\ WF_vars(UnsubscribeStreamUnparked(c))

FairSpec == Init /\ [][NextOnce]_vars /\ Fairness

\* ------------------------------------------------------------------ properties

\* C1: the subscriber list holds exactly the subscriptions SubscribeStream
\* returned and UnsubscribeStream was not handed, each of them once
SubscriberListExact ==
    /\ Range(streamSubscribers) = issued \ passed
    /\ Len(streamSubscribers) = Cardinality(issued \ passed)

\* three subscriptions were returned, the second one was unsubscribed
SubscriberListExactWitness ==
    /\ Cardinality(issued) = 3
    /\ {s.ch : s \in passed} = {2}
    /\ Len(streamSubscribers) = 2

\* the channels of the subscribers whose rule is in the matching rules of the tweet
\* the fan-out of run r holds
Matching(r) ==
    {s.ch : s \in {x \in Range(streamSubscribers) : x.rule \in Range(fanTweet[r].ruleIDs)}}

\* C2: the fan-out sends a tweet on the channel of every subscriber whose rule is
\* among the tweet's matching rules and on no other channel: while it sends, the
\* channels served and the one it is parked on are matching ones, and when it is
\* through, the channels served are all the matching ones
FanOutExact ==
    \A r \in Runs :
        /\ fan[r] = "send" =>
              /\ sentTo[r] \subseteq Matching(r)
              /\ streamSubscribers[fanPos[r][1]].ch \in Matching(r)
        /\ fan[r] = "unlock" => sentTo[r] = Matching(r)

\* three live subscriptions, the first and the third match: exactly their channels
\* got the tweet
FanOutExactWitness ==
    \E r \in Runs :
        /\ fan[r] = "unlock"
        /\ Len(streamSubscribers) = 3
        /\ streamSubscribers[1].rule # streamSubscribers[2].rule
        /\ sentTo[r] = {streamSubscribers[1].ch, streamSubscribers[3].ch}

\* C3: a rule is never requested for deletion while a live subscription has it
NoDeleteWhileReferenced ==
    [][\A id \in RuleIds :
          pendingDeletes'[id] < pendingDeletes[id] =>
              \A s \in Range(streamSubscribers) : s.rule # id]_vars

\* the runs of stream() that were launched and have not returned
ActiveRuns == {r \in Runs : main[r] \in {"open", "select", "exit"}}

\* C5: at most one stream() is active, and the flag is set while it is
AtMostOnePump ==
    /\ Cardinality(ActiveRuns) <= 1
    /\ ActiveRuns # {} => streaming

\* a second run is active after the first one returned
AtMostOnePumpWitness ==
    /\ main[1] = "done"
    /\ main[2] = "select"
    /\ \E c \in Callers : pc[c] = "stop_send"

\* C7: the readers of a channel take the tweets of one run in the order they
\* were decoded
DeliveredInDecodeOrder ==
    \A ch \in Chans : \A i, j \in DOMAIN received[ch] :
        (i < j /\ received[ch][i].run = received[ch][j].run)
            => received[ch][i].seq <= received[ch][j].seq

\* a channel got the first and the second tweet of a run
DeliveredInDecodeOrderWitness ==
    \E ch \in Chans :
        /\ Len(received[ch]) = 2
        /\ received[ch][1].run = received[ch][2].run
        /\ received[ch][1].seq = 1
        /\ received[ch][2].seq = 2

\* C10: a StopStream parked on stopStreamChan while the pump waits in its select
\* ends the pump: stream() returns and the flag is false, whatever is subscribed
StopStreamEndsPump ==
    \A r \in Runs :
        (main[r] = "select" /\ \E c \in Callers : pc[c] = "stop_send")
            ~> (main[r] = "done" /\ ~streaming)

\* StopStream is parked, the pump is in its select, a subscription is live
StopStreamEndsPumpWitness ==
    \E r \in Runs, c \in Callers :
        /\ main[r] = "select"
        /\ pc[c] = "stop_send"
        /\ streamSubscribers # <<>>

\* C4: an UnsubscribeStream that removed the last subscription while a pump runs
\* ends the pump: stream() returns, its request is cancelled, its response body is
\* not left open, and the flag is false
UnsubscribeLastEndsPump ==
    \A r \in Runs :
        (r \in ActiveRuns /\ \E c \in Callers : pc[c] = "unsub_stop")
            ~> (main[r] = "done" /\ reqCancelled[r] /\ body[r] # "open" /\ ~streaming)

\* UnsubscribeStream emptied the list and is parked on stopStreamChan while the
\* pump reads the stream
UnsubscribeLastEndsPumpWitness ==
    \E r \in Runs, c \in Callers :
        /\ main[r] = "select"
        /\ body[r] = "open"
        /\ pc[c] = "unsub_stop"
        /\ streamSubscribers = <<>>

\* C6, as claimed: SubscribeStream on a client whose pump is not running leaves
\* the flag set and a pump launched
SubscribeStartsPump ==
    [][(issued' # issued /\ ~streaming) => (streaming' /\ ActiveRuns' # {})]_vars

\* C6, amended: SubscribeStream leaves the flag and the pump as they are; a pump
\* is launched only by a StartStream that finds the flag false and sets it
SubscribeLeavesPump ==
    [][/\ issued' # issued => (streaming' = streaming /\ main' = main)
       /\ (\E r \in Runs : main[r] = "none" /\ main'[r] # "none")
             => (~streaming /\ streaming' /\ \E c \in Callers : StartStream(c))]_vars

\* SubscribeStream returned on a client that never started its pump
SubscribeLeavesPumpWitness ==
    /\ streamSubscribers # <<>>
    /\ \A r \in Runs : main[r] = "none"
    /\ ~streaming

\* C8: UnsubscribeStream with a subscription that is not in the list changes
\* nothing: the list stays, no rule is deleted, no stop signal is sent, no channel
\* is closed and none is closed twice
UnsubscribeAbsentIsNoOp ==
    [][\A c \in Callers, sub \in passed :
          (sub \notin Range(streamSubscribers) /\ UnsubscribeStreamAgain(c, sub))
              => UNCHANGED <<streamSubscribers, pendingDeletes, pc, mutex, closed, panicked>>]_vars

\* C9: when the decoder found no more data and ended while the pump waits in its
\* select, the pump ends and the flag becomes false
UpstreamCloseEndsPump ==
    \A r \in Runs :
        (main[r] = "select" /\ dec[r] = "done") ~> (main[r] = "done" /\ ~streaming)

\* C11: a StopStream called while no pump runs returns: the caller does not stay
\* parked on stopStreamChan waiting for a pump to exist
StopStreamReturnsWithoutPump ==
    \A c \in Callers :
        (pc[c] = "stop_send" /\ ActiveRuns = {}) ~> (pc[c] = "idle")

\* C12: no subscription in the list has a closed channel and no sender is parked
\* on a closed channel, so the fan-out, which sends only on channels of the list
\* while it holds the lock, never sends on a closed channel
NoSendOnClosed ==
    /\ \A s \in Range(streamSubscribers) : s.ch \notin closed
    /\ \A ch \in closed : sendq[ch] = <<>>
    /\ \A r \in Runs : fan[r] = "send" => mutex = ByFan(r)

\* the fan-out is parked sending on a live channel after UnsubscribeStream closed
\* the channel of another subscription of the same rule
NoSendOnClosedWitness ==
    \E r \in Runs :
        /\ fan[r] = "send"
        /\ \E s \in passed : s.ch \in closed /\ s.rule \in Range(fanTweet[r].ruleIDs)
        /\ sendq[streamSubscribers[fanPos[r][1]].ch] # <<>>

\* C17: after Decode returned an error the decode goroutine surfaces it and ends:
\* from its send on errChan it goes nowhere but to its end
DecodeErrorEndsLoop ==
    [][\A r \in Runs : dec[r] = "errsend" => dec'[r] \in {"errsend", "done"}]_vars

\* C18: when a pump is launched, the decode and the fan-out goroutine of every
\* earlier run have exited
NewPumpAfterOldStopped ==
    [][\A r \in Runs :
          (main[r] = "none" /\ main'[r] = "open")
              => \A q \in Runs \ {r} : /\ dec[q] \in {"none", "done"}
                                        /\ fan[q] \in {"none", "done"}]_vars

\* C19: the running flag is written only by a goroutine that holds the mutex: no
\* write happens while another goroutine holds it
FlagWrittenUnderLock ==
    [][streaming' # streaming => mutex = Free]_vars

\* C20: an UnsubscribeStream that emptied the list while no pump runs returns
\* and releases the mutex
UnsubscribeLastReturnsWithoutPump ==
    \A c \in Callers :
        (pc[c] = "unsub_stop" /\ ActiveRuns = {}) ~> (pc[c] = "idle" /\ mutex # ByCaller(c))

\* C14: with EnableAllTweetsChannel set, a tweet the decode goroutine hands to
\* the fan-out, and the tweet the fan-out holds, was taken from StreamedTweets
\* before, whatever its matching rules; with it unset nothing is ever sent on
\* StreamedTweets
AllTweetsChannelFirst ==
    \A r \in Runs :
        IF EnableAllTweetsChannel
        THEN /\ dec[r] = "handoff" => decTweet[r].seq \in Range(streamed[r])
             /\ fanTweet[r] # NoTweet => fanTweet[r].seq \in Range(streamed[r])
        ELSE streamed[r] = <<>> /\ dec[r] # "allsend"

\* a tweet without matching rules was taken from StreamedTweets and then handed
\* to the fan-out, with a subscription in the list
AllTweetsChannelFirstWitness ==
    \E r \in Runs :
        /\ EnableAllTweetsChannel
        /\ fan[r] = "unlock"
        /\ fanTweet[r].ruleIDs = <<>>
        /\ fanTweet[r].seq \in Range(streamed[r])
        /\ streamSubscribers # <<>>

\* C15: the outcome of the spawned DeleteStreamRule does not reach the caller:
\* the step that sends the delete request, failing or not, leaves the client and
\* every caller as they are, and the UnsubscribeStream that spawned it has removed
\* the subscription, from the call or from its wait in Lock, and closes the channel,
\* or parks on stopStreamChan, with the request still to be sent
UnsubscribeIgnoresDeleteOutcome ==
    [][\A id \in RuleIds :
          /\ pendingDeletes'[id] < pendingDeletes[id] =>
                UNCHANGED <<streamSubscribers, streaming, mutex, pc, arg, issued,
                            passed, closed, panicked>>
          /\ pendingDeletes'[id] > pendingDeletes[id] =>
                \E c \in Callers :
                    /\ pc[c] \in {"idle", "unsub_lock"}
                    /\ passed' \ passed # {}
                    /\ Range(streamSubscribers') \cap passed' = {}
                    /\ IF streamSubscribers' = <<>>
                       THEN pc'[c] = "unsub_stop"
                       ELSE pc'[c] = "idle" /\ mutex' = Free /\ closed' # closed]_vars

\* a delete request failed after the UnsubscribeStream that spawned it returned
\* with the channel closed
UnsubscribeIgnoresDeleteOutcomeWitness ==
    /\ deleteFailed
    /\ closed # {}
    /\ streamSubscribers = <<>>
    /\ mutex = Free
    /\ \A c \in Callers : pc[c] = "idle"
    /\ ~panicked

\* C13: a CreateStreamRule whose request the server answered with StatusCreated,
\* no rule created and the existing rule in the errors returns a nil error and the
\* identifier every earlier successful call with the same rule value returned
CreateStreamRuleIdempotent ==
    \A j \in DOMAIN returned :
        (returned[j].resp.StatusCode = StatusCreated /\ returned[j].resp.Created = 0)
            => /\ ~returned[j].result.err
               /\ \A i \in 1..(j - 1) :
                     (returned[i].value = returned[j].value /\ ~returned[i].result.err)
                         => returned[i].result.rule.ID = returned[j].result.rule.ID
               /\ returned[j].result.rule.ID # 0

\* the second of two calls with the same rule value was answered as a duplicate,
\* after a call with another value created a rule in between
CreateStreamRuleIdempotentWitness ==
    /\ Len(returned) = 3
    /\ returned[1].value = returned[3].value
    /\ returned[2].value # returned[1].value
    /\ returned[1].resp.Created = 1
    /\ returned[2].resp.Created = 1
    /\ returned[3].resp.StatusCode = StatusCreated
    /\ returned[3].resp.Created = 0

\* the URLs of the included photos with media key k, in the order of the includes
PhotosOf(k, incl) ==
    LET sel == SelectSeq(incl, LAMBDA m : m.MediaKey = k /\ m.Type = "photo")
    IN [i \in DOMAIN sel |-> sel[i].URL]

\* the photos of the media keys, in attachment order
RECURSIVE PhotosInOrder(_, _)
PhotosInOrder(keys, incl) ==
    IF keys = <<>> THEN <<>>
    ELSE PhotosOf(Head(keys), incl) \o PhotosInOrder(Tail(keys), incl)

\* the included videos a media key of the tweet resolves to
VideosOf(tw, incl) ==
    {m \in Range(incl) : m.Type = "video" /\ m.MediaKey \in Range(tw.MediaKeys)}

UnsubscribeReturnsDespiteFanOut ==
    \A c \in Callers :
        (/\ pc[c] = "unsub_lock"
         /\ \E r \in Runs : /\ fan[r] = "send"
                            /\ mutex = ByFan(r)
                            /\ streamSubscribers[fanPos[r][1]] = arg[c])
            ~> (pc[c] # "unsub_lock")

\* C22: in every run at most two decoded records are not through the fan-out:
\* the one the decode goroutine holds and the one being fanned out
DecodeBacklogBounded ==
    \A r \in Runs : decoded[r] - fannedOut[r] <= 2

\* the third record is decoded and held by the decode goroutine while the
\* fan-out is parked sending the second
DecodeBacklogBoundedWitness ==
    \E r \in Runs :
        /\ decoded[r] = 3
        /\ fannedOut[r] = 1
        /\ dec[r] = "handoff"
        /\ fan[r] = "send"

\* C23: an UnsubscribeStream call that leaves the subscriber list non-empty sends
\* no stop signal, leaves the running flag and the pump as they are, takes nothing
\* but subToRemove out of the list and closes no channel but subToRemove's
UnsubscribeKeepsPump ==
    [][\A c \in Callers, sub \in issued :
          (/\ UnsubscribeStream(c, sub) \/ (UnsubscribeStreamUnparked(c) /\ arg[c] = sub)
           /\ streamSubscribers' # <<>>)
              => /\ \A d \in Callers : pc'[d] = "unsub_stop" => pc[d] = "unsub_stop"
                 /\ streaming' = streaming
                 /\ main' = main
                 /\ streamSubscribers' = SelectSeq(streamSubscribers, LAMBDA s : s # sub)
                 /\ closed' \subseteq closed \cup {sub.ch}
                 /\ \A i \in DOMAIN streamSubscribers' :
                        streamSubscribers'[i].ch \notin closed']_vars

\* the only UnsubscribeStream so far has returned, a subscriber is left and the
\* first pump, the only one launched, still reads the stream
UnsubscribeKeepsPumpWitness ==
    /\ ~panicked
    /\ \E sub \in passed : passed = {sub} /\ sub.ch \in closed
    /\ Len(streamSubscribers) >= 1
    /\ \A c \in Callers : pc[c] = "idle"
    /\ streaming
    /\ main[1] = "select"
    /\ \A r \in Runs \ {1} : main[r] = "none"

====
